---------------------------- MODULE Spec2Model ----------------------------
(***************************************************************************)
(* Model of day33/init2nn.cu: the numeric kernels of the MLP forward pass, *)
(* the forward() launch pipeline, and the tensor-core GEMM benchmark       *)
(* (WMMAF16TensorCore / CalcWMMA / main).                                  *)
(*                                                                         *)
(* float values are modelled in fixed point: the integer v stands for the  *)
(* real number v / SCALE.  Whole numbers and their sums and products are   *)
(* exact, as they are in binary32 in the ranges used here; every other     *)
(* operation rounds to the nearest unit.                                   *)
(***************************************************************************)
EXTENDS Integers, Sequences, FiniteSets, TLC

-----------------------------------------------------------------------------
(* Fixed-point arithmetic standing for binary32 arithmetic.                *)

SCALE == 10 ^ 8
ONE == SCALE
HALF == SCALE \div 2

Abs(x) == IF x < 0 THEN 0 - x ELSE x
Sgn(x) == IF x < 0 THEN 0 - 1 ELSE 1

\* The power of two at which MulModQR splits the multiplier b > 2.
SplitAt(b) ==
    IF b > 2 ^ 16 THEN 2 ^ 16
    ELSE IF b > 2 ^ 8 THEN 2 ^ 8
    ELSE IF b > 2 ^ 4 THEN 2 ^ 4
    ELSE IF b > 2 ^ 2 THEN 2 ^ 2
    ELSE 2

\* <<quotient, remainder>> of a*b by c for 0 <= a < c < 2^30 and b >= 0,
\* computed without forming a*b: with b = bh*P + bl,
\* a*b = ((a*bh) mod c)*P + a*bl + c*P*((a*bh) div c).
RECURSIVE MulModQR(_, _, _)
MulModQR(a, b, c) ==
    IF b <= 2 THEN <<(a * b) \div c, (a * b) % c>>
    ELSE LET P == SplitAt(b)
             h == MulModQR(a, b \div P, c)
             g == MulModQR(h[2], P, c)
             l == MulModQR(a, b % P, c)
         IN  <<h[1] * P + g[1] + l[1] + (IF g[2] + l[2] >= c THEN 1 ELSE 0),
               (g[2] + l[2]) % c>>

\* <<quotient, remainder>> of a*b by c for a, b >= 0 and 0 < c < 2^30.
MulDivQR(a, b, c) ==
    LET qr == MulModQR(a % c, b, c)
    IN  <<(a \div c) * b + qr[1], qr[2]>>

\* x*y/z rounded to nearest, ties away from zero.
MulDivRoundOf(x, y, z) ==
    IF x = 0 \/ y = 0 \/ z = 0 THEN 0
    ELSE LET qr == MulDivQR(Abs(x), Abs(y), Abs(z))
             q  == qr[1] + (IF 2 * qr[2] >= Abs(z) THEN 1 ELSE 0)
         IN  Sgn(x) * Sgn(y) * Sgn(z) * q

\* The same with the operands evaluated first (bound as values).
MulDivRound(a, b, c) ==
    CHOOSE q \in {MulDivRoundOf(x, y, z) : x \in {a}, y \in {b}, z \in {c}} : TRUE

\* The product of two fixed-point numbers, rounded to nearest: the operands
\* are split at SPLIT = sqrt(SCALE) so that no partial product overflows.
SPLIT == 10 ^ 4
fmul(a, b) ==
    IF a = 0 \/ b = 0 THEN 0
    ELSE LET ah  == Abs(a) \div SPLIT
             al  == Abs(a) % SPLIT
             bh  == Abs(b) \div SPLIT
             bl  == Abs(b) % SPLIT
             mid == ah * bl + al * bh
             low == (mid % SPLIT) * SPLIT + al * bl
             q   == ah * bh + mid \div SPLIT + low \div SCALE
             r   == low % SCALE
         IN  Sgn(a) * Sgn(b) * (q + (IF 2 * r >= SCALE THEN 1 ELSE 0))

fdiv(a, b) == MulDivRound(a, SCALE, b)
fmaxf(a, b) == IF a >= b THEN a ELSE b

\* exp(-f) for 0 <= f <= 1 by its alternating series t0 - (t1 - (t2 - ...)).
RECURSIVE ExpSeries(_, _, _)
ExpSeries(f, n, t) ==
    IF t = 0 THEN 0
    ELSE t - ExpSeries(f, n + 1, fmul(t, f) \div (n + 1))

\* exp(-d) for d >= 0, halving the argument down to [0, 1].
RECURSIVE ExpNeg(_)
ExpNeg(d) ==
    IF d <= ONE THEN ExpSeries(d, 0, ONE)
    ELSE LET h == ExpNeg(d \div 2) IN fmul(h, h)

expf(x) == IF x <= 0 THEN ExpNeg(0 - x) ELSE fdiv(ONE, ExpNeg(x))

tanhf(u) ==
    LET e == ExpNeg(2 * Abs(u))
    IN  Sgn(u) * fdiv(ONE - e, ONE + e)


-----------------------------------------------------------------------------
(* Device memory and the kernels.  A buffer is a function on 0..len-1; a   *)
(* thread is given by blockIdx, blockDim and threadIdx; what one thread    *)
(* does is the set rd of <<buffer, index>> it reads, the buffer wbuf it     *)
(* writes and the function wr from the indices it writes to the values.    *)

NoAccess == [rd |-> {}, wbuf |-> "", wr |-> <<>>]

\* for (i = 0; i < n; ++i) sum += A[row * n + i] * B[i * k + col];
RECURSIVE SumAB(_, _, _, _, _, _, _, _)
SumAB(A, B, row, col, n, k, i, sum) ==
    IF i < n
    THEN SumAB(A, B, row, col, n, k, i + 1,
               sum + fmul(A[row * n + i], B[i * k + col]))
    ELSE sum

\* for (i = 0; i < n; ++i) sum += A[row * n + i] * B[col * n + i];
RECURSIVE SumABt(_, _, _, _, _, _, _)
SumABt(A, B, row, col, n, i, sum) ==
    IF i < n
    THEN SumABt(A, B, row, col, n, i + 1,
                sum + fmul(A[row * n + i], B[col * n + i]))
    ELSE sum

\* for (i = 0; i < m; ++i) sum += A[i * n + row] * B[i * k + col];
RECURSIVE SumAtB(_, _, _, _, _, _, _, _, _)
SumAtB(A, B, row, col, m, n, k, i, sum) ==
    IF i < m
    THEN SumAtB(A, B, row, col, m, n, k, i + 1,
                sum + fmul(A[i * n + row], B[i * k + col]))
    ELSE sum

ThreadRow(t) == t.blockIdx.y * t.blockDim.y + t.threadIdx.y
ThreadCol(t) == t.blockIdx.x * t.blockDim.x + t.threadIdx.x
ThreadIdx1D(t) == t.blockIdx.x * t.blockDim.x + t.threadIdx.x

\* Mutant: the guard on the row is missing (if (col < k)).
matmul_a_b_kernel_norowguard(M, A, B, C, m, n, k, t) ==
    LET row == ThreadRow(t)
        col == ThreadCol(t)
    IN  IF col < k
        THEN [rd |-> {<<A, row * n + i>> : i \in 0..(n - 1)}
                       \cup {<<B, i * k + col>> : i \in 0..(n - 1)},
              wbuf |-> C,
              wr |-> [j \in {row * k + col} |->
                        SumAB(M[A], M[B], row, col, n, k, 0, 0)]]
        ELSE NoAccess

\* Mutant: the sum starts from the prior C[row*k+col] (C += A @ B).
matmul_a_b_kernel_accum(M, A, B, C, m, n, k, t) ==
    LET row == ThreadRow(t)
        col == ThreadCol(t)
    IN  IF row < m /\ col < k
        THEN [rd |-> {<<A, row * n + i>> : i \in 0..(n - 1)}
                       \cup {<<B, i * k + col>> : i \in 0..(n - 1)},
              wbuf |-> C,
              wr |-> [j \in {row * k + col} |->
                        SumAB(M[A], M[B], row, col, n, k, 0, M[C][row * k + col])]]
        ELSE NoAccess

matmul_a_b_kernel(M, A, B, C, m, n, k, t) ==
    LET row == ThreadRow(t)
        col == ThreadCol(t)
    IN  IF row < m /\ col < k
        THEN [rd |-> {<<A, row * n + i>> : i \in 0..(n - 1)}
                       \cup {<<B, i * k + col>> : i \in 0..(n - 1)},
              wbuf |-> C,
              wr |-> [j \in {row * k + col} |-> SumAB(M[A], M[B], row, col, n, k, 0, 0)]]
        ELSE NoAccess

\* Mutant: B is indexed as in A @ B (B[i*k+col]), not transposed.
matmul_a_bt_kernel_untransposed(M, A, B, C, m, n, k, t) ==
    LET row == ThreadRow(t)
        col == ThreadCol(t)
    IN  IF row < m /\ col < k
        THEN [rd |-> {<<A, row * n + i>> : i \in 0..(n - 1)}
                       \cup {<<B, i * k + col>> : i \in 0..(n - 1)},
              wbuf |-> C,
              wr |-> [j \in {row * k + col} |->
                        SumAB(M[A], M[B], row, col, n, k, 0, 0)]]
        ELSE NoAccess

matmul_a_bt_kernel(M, A, B, C, m, n, k, t) ==
    LET row == ThreadRow(t)
        col == ThreadCol(t)
    IN  IF row < m /\ col < k
        THEN [rd |-> {<<A, row * n + i>> : i \in 0..(n - 1)}
                       \cup {<<B, col * n + i>> : i \in 0..(n - 1)},
              wbuf |-> C,
              wr |-> [j \in {row * k + col} |-> SumABt(M[A], M[B], row, col, n, 0, 0)]]
        ELSE NoAccess

\* Mutant: A is indexed as an n x m matrix (A[row*m+i]), not transposed.
matmul_at_b_kernel_untransposed(M, A, B, C, m, n, k, t) ==
    LET row == ThreadRow(t)
        col == ThreadCol(t)
    IN  IF row < n /\ col < k
        THEN [rd |-> {<<A, row * m + i>> : i \in 0..(m - 1)}
                       \cup {<<B, i * k + col>> : i \in 0..(m - 1)},
              wbuf |-> C,
              wr |-> [j \in {row * k + col} |->
                        SumAB(M[A], M[B], row, col, m, k, 0, 0)]]
        ELSE NoAccess

matmul_at_b_kernel(M, A, B, C, m, n, k, t) ==
    LET row == ThreadRow(t)
        col == ThreadCol(t)
    IN  IF row < n /\ col < k
        THEN [rd |-> {<<A, i * n + row>> : i \in 0..(m - 1)}
                       \cup {<<B, i * k + col>> : i \in 0..(m - 1)},
              wbuf |-> C,
              wr |-> [j \in {row * k + col} |-> SumAtB(M[A], M[B], row, col, m, n, k, 0, 0)]]
        ELSE NoAccess

\* 0.7978845608f and 0.044715f
GELU_C0 == 79788456
GELU_C1 == 4471500

gelu(x_val) ==
    LET cube == fmul(fmul(fmul(GELU_C1, x_val), x_val), x_val)
        cdf  == fmul(HALF, ONE + tanhf(fmul(GELU_C0, x_val + cube)))
    IN  fmul(x_val, cdf)

gelu_kernel(M, x, size, t) ==
    LET idx == ThreadIdx1D(t)
    IN  IF idx < size
        THEN [rd |-> {<<x, idx>>}, wbuf |-> x,
              wr |-> [j \in {idx} |-> gelu(M[x][idx])]]
        ELSE NoAccess

\* 1e-7f
SOFTMAX_FLOOR == 10

\* max_val = x[b*size]; for (i = 1; i < size; ++i) max_val = fmaxf(max_val, x[b*size+i]);
\* The loop over lo..hi-1 is unfolded by halves, left half first, so that the
\* elements are still visited in increasing order of i.
RECURSIVE RowMax(_, _, _, _, _, _)
RowMax(X, b, size, lo, hi, max_val) ==
    IF lo >= hi THEN max_val
    ELSE IF hi = lo + 1 THEN fmaxf(max_val, X[b * size + lo])
    ELSE LET mid  == (lo + hi) \div 2
             left == RowMax(X, b, size, lo, mid, max_val)
         IN  IF left = left THEN RowMax(X, b, size, mid, hi, left) ELSE left

\* for (i = 0; i < size; ++i) { x[..] = expf(x[..] - max_val); sum += x[..]; }
RECURSIVE RowExpSum(_, _, _, _, _, _, _)
RowExpSum(X, b, size, max_val, lo, hi, sum) ==
    IF lo >= hi THEN sum
    ELSE IF hi = lo + 1 THEN sum + expf(X[b * size + lo] - max_val)
    ELSE LET mid  == (lo + hi) \div 2
             left == RowExpSum(X, b, size, max_val, lo, mid, sum)
         IN  IF left = left THEN RowExpSum(X, b, size, max_val, mid, hi, left)
                            ELSE left

\* Mutant: the quotient is stored without the floor at 1e-7.
softmax_kernel_nofloor(M, x, batch_size, size, t) ==
    LET b == t.blockIdx.x
    IN  IF b < batch_size
        THEN LET max_val == RowMax(M[x], b, size, 1, size, M[x][b * size])
                 sum     == RowExpSum(M[x], b, size, max_val, 0, size, 0)
             IN  [rd |-> {<<x, b * size + i>> : i \in 0..(size - 1)},
                  wbuf |-> x,
                  wr |-> [j \in (b * size)..(b * size + size - 1) |->
                            fdiv(expf(M[x][j] - max_val), sum)]]
        ELSE NoAccess

softmax_kernel(M, x, batch_size, size, t) ==
    LET b == t.blockIdx.x
    IN  IF b < batch_size
        THEN LET max_val == RowMax(M[x], b, size, 1, size, M[x][b * size])
                 sum     == RowExpSum(M[x], b, size, max_val, 0, size, 0)
             IN  [rd |-> {<<x, b * size + i>> : i \in 0..(size - 1)},
                  wbuf |-> x,
                  wr |-> [j \in (b * size)..(b * size + size - 1) |->
                            fmaxf(fdiv(expf(M[x][j] - max_val), sum),
                                  SOFTMAX_FLOOR)]]
        ELSE NoAccess

\* Mutant: x[idx] = bias[i] instead of x[idx] += bias[i].
bias_add_kernel_assign(M, x, bias, batch_size, size, t) ==
    LET idx == ThreadIdx1D(t)
        b   == idx \div size
        i   == idx % size
    IN  IF b < batch_size /\ i < size
        THEN [rd |-> {<<x, idx>>, <<bias, i>>},
              wbuf |-> x,
              wr |-> [j \in {idx} |-> M[bias][i]]]
        ELSE NoAccess

bias_add_kernel(M, x, bias, batch_size, size, t) ==
    LET idx == ThreadIdx1D(t)
        b   == idx \div size
        i   == idx % size
    IN  IF b < batch_size /\ i < size
        THEN [rd |-> {<<x, idx>>, <<bias, i>>},
              wbuf |-> x,
              wr |-> [j \in {idx} |-> M[x][idx] + M[bias][i]]]
        ELSE NoAccess

-----------------------------------------------------------------------------
(* The tensor-core GEMM kernel.  Fragment sizes and tile counts are scaled *)
(* down (16 -> WMMA_M etc., 256 -> M_TILES etc.); WARP_SIZE is the         *)
(* source's.                                                               *)

WARP_SIZE == 4

WMMA_M == 2
WMMA_N == 2
WMMA_K == 2

M_TILES == 2
N_TILES == 2
K_TILES == 2

M_TOTAL == WMMA_M * M_TILES
N_TOTAL == WMMA_N * N_TILES
K_TOTAL == WMMA_K * K_TILES

\* The threads that execute one wmma::*_sync operation together.
HW_WARP_SIZE == 2 ^ 5

\* __float2half: round to 11 significant bits (ties and subnormals are not
\* told apart at this resolution).
RECURSIVE HalfShift(_, _)
HalfShift(v, p) == IF v * p >= SCALE \/ p >= 2 ^ 14 THEN p ELSE HalfShift(v, 2 * p)

Float2Half(v) ==
    IF v <= 0 \/ v >= 2 * SCALE THEN 0
    ELSE LET p == HalfShift(v, 1)
             m == MulDivRound(v, p * (2 ^ 10), SCALE)
         IN  MulDivRound(m, SCALE, p * (2 ^ 10))

\* wmma::load_matrix_sync: the rows x cols fragment at M[buf][base...] with
\* leading dimension ld; element (i, j) is at base + i*ld + j for a
\* row-major fragment and at base + i + j*ld for a col-major one.
load_matrix_sync(M, buf, base, ld, layout, rows, cols) ==
    [e \in (0..(rows - 1)) \X (0..(cols - 1)) |->
        IF layout = "row_major"
        THEN M[buf][base + e[1] * ld + e[2]]
        ELSE M[buf][base + e[1] + e[2] * ld]]

\* The addresses load_matrix_sync reads.
FragmentAddrs(base, ld, layout, rows, cols) ==
    {IF layout = "row_major" THEN base + e[1] * ld + e[2] ELSE base + e[1] + e[2] * ld :
        e \in (0..(rows - 1)) \X (0..(cols - 1))}

\* wmma::mma_sync(d, a, b, c): d = a x b + c on WMMA_M x WMMA_K and
\* WMMA_K x WMMA_N fragments.
RECURSIVE FragDot(_, _, _, _, _, _)
FragDot(a, b, i, n, j, sum) ==
    IF j >= WMMA_K THEN sum
    ELSE FragDot(a, b, i, n, j + 1, sum + fmul(a[<<i, j>>], b[<<j, n>>]))

mma_sync(a, b, c) ==
    [e \in (0..(WMMA_M - 1)) \X (0..(WMMA_N - 1)) |->
        FragDot(a, b, e[1], e[2], 0, c[e])]

\* for (k = 0; k < K_TOTAL; k += K): the accumulator after the iterations
\* from k on.
RECURSIVE ContractionLoop(_, _, _, _, _, _)
ContractionLoop(M, A, B, a_row, b_row, st) ==
    IF st.k >= K_TOTAL THEN st.ab_frag
    ELSE LET a_col == st.k
             b_col == st.k
         IN  IF a_row < M_TOTAL /\ a_col < K_TOTAL /\ b_row < K_TOTAL /\ b_col < N_TOTAL
             THEN LET a_frag == load_matrix_sync(M, A, a_col + a_row * K_TOTAL, K_TOTAL,
                                                 "row_major", WMMA_M, WMMA_K)
                      b_frag == load_matrix_sync(M, B, b_col + b_row * N_TOTAL, N_TOTAL,
                                                 "col_major", WMMA_K, WMMA_N)
                      ab == mma_sync(a_frag, b_frag, st.ab_frag)
                  IN  IF ab = ab
                      THEN ContractionLoop(M, A, B, a_row, b_row,
                                           [k |-> st.k + WMMA_K, ab_frag |-> ab])
                      ELSE ab
             ELSE ContractionLoop(M, A, B, a_row, b_row,
                                  [k |-> st.k + WMMA_K, ab_frag |-> st.ab_frag])

\* The addresses of A and B the contraction loop reads.
ContractionReads(A, B, a_row, b_row) ==
    IF a_row < M_TOTAL /\ b_row < K_TOTAL
    THEN UNION {
           {<<A, x>> : x \in FragmentAddrs(k * WMMA_K + a_row * K_TOTAL, K_TOTAL,
                                            "row_major", WMMA_M, WMMA_K)}
           \cup {<<B, x>> : x \in FragmentAddrs(k * WMMA_K + b_row * N_TOTAL, N_TOTAL,
                                                 "col_major", WMMA_K, WMMA_N)} :
           k \in {kt \in 0..(K_TILES - 1) : kt * WMMA_K < N_TOTAL}}
    ELSE {}

\* What the WARP_SIZE threads that share (ix, iy) do together; t is any one
\* of them.
WMMAF16TensorCore(M, A, B, C, D, t) ==
    LET ix == (t.blockIdx.x * t.blockDim.x + t.threadIdx.x) \div WARP_SIZE
        iy == t.blockIdx.y * t.blockDim.y + t.threadIdx.y
        a_row == ix * WMMA_M
        b_row == iy * WMMA_N
        zero == [e \in (0..(WMMA_M - 1)) \X (0..(WMMA_N - 1)) |-> 0]
        ab_frag == ContractionLoop(M, A, B, a_row, b_row, [k |-> 0, ab_frag |-> zero])
        c_row == a_row
        c_col == b_row
    IN  IF c_row < M_TOTAL /\ c_col < N_TOTAL
        THEN LET base == c_col + c_row * N_TOTAL
                 c_frag == load_matrix_sync(M, C, base, N_TOTAL, "row_major", WMMA_M, WMMA_N)
             IN  [rd |-> ContractionReads(A, B, a_row, b_row)
                           \cup {<<C, x>> : x \in FragmentAddrs(base, N_TOTAL, "row_major",
                                                                WMMA_M, WMMA_N)},
                  wbuf |-> D,
                  wr |-> [x \in FragmentAddrs(base, N_TOTAL, "row_major", WMMA_M, WMMA_N) |->
                            LET i == (x - base) \div N_TOTAL
                                n == (x - base) % N_TOTAL
                            IN  ab_frag[<<i, n>>] + c_frag[<<i, n>>]]]
        ELSE NoAccess

-----------------------------------------------------------------------------
(* Kernel launches and the device.  A launch <<<grid, block, 0, stream>>>  *)
(* is a record; its threads are numbered 0..NThreads-1.  The device runs   *)
(* the threads of a running launch one at a time in any order, and starts  *)
(* a queued launch once every earlier launch of its stream has completed.  *)

VARIABLES
    mem,       \* device memory: buffer name -> (index -> value)
    mem0,      \* the memory when the host program started (history)
    kq,        \* the launches issued so far, each queued, running or done
    done,      \* per launch: the threads that have run
    wlog,      \* per launch: <<thread, buffer, index>> for every write
    rlog,      \* per launch: <<thread, buffer, index>> for every read
    kstart,    \* per launch: the memory when the launch started (<<>> before)
    devlog,    \* <<"start", i>> and <<"end", i>> in the order they happened
    pc,        \* the host's position
    hv,        \* the host's local variables
    calls,     \* the device API calls <<name, argument>> the host has made, in order
    out,       \* what the host has printed
    status     \* the process exit status, or "running"

vars == <<mem, mem0, kq, done, wlog, rlog, kstart, devlog, pc, hv, calls, out, status>>
devvars == <<mem, kq, done, wlog, rlog, kstart, devlog>>
hostvars == <<pc, hv, calls, out, status>>

CeilDiv(a, b) == (a + b - 1) \div b

Dim(x, y) == [x |-> x, y |-> y]

Launch(kernel, grid, block, stream, args) ==
    [kernel |-> kernel, grid |-> grid, block |-> block, stream |-> stream,
     args |-> args, state |-> "queued"]

NThreads(L) == L.grid.x * L.grid.y * L.block.x * L.block.y

\* Thread number id of launch L: threadIdx.x runs fastest, then threadIdx.y,
\* then blockIdx.x, then blockIdx.y.
ThreadOf(L, id) ==
    LET perBlock == L.block.x * L.block.y
        blk      == id \div perBlock
        loc      == id % perBlock
    IN  [blockIdx  |-> Dim(blk % L.grid.x, blk \div L.grid.x),
         blockDim  |-> L.block,
         threadIdx |-> Dim(loc % L.block.x, loc \div L.block.x)]

Threads(L) == 0..(NThreads(L) - 1)

\* The memory M after the writes of the access acc.
Apply(M, acc) ==
    IF DOMAIN acc.wr = {} THEN M
    ELSE [b \in DOMAIN M |->
            IF b = acc.wbuf
            THEN [i \in DOMAIN M[b] |->
                    IF i \in DOMAIN acc.wr THEN acc.wr[i] ELSE M[b][i]]
            ELSE M[b]]

\* What thread t of launch L does on memory M: the kernel named in the launch
\* applied to the launch's arguments.
Thread(L, M, t) ==
    LET a == L.args
    IN  CASE L.kernel = "matmul_a_b_kernel" ->
               matmul_a_b_kernel(M, a.A, a.B, a.C, a.m, a.n, a.k, t)
          [] L.kernel = "matmul_a_bt_kernel" ->
               matmul_a_bt_kernel(M, a.A, a.B, a.C, a.m, a.n, a.k, t)
          [] L.kernel = "matmul_at_b_kernel" ->
               matmul_at_b_kernel(M, a.A, a.B, a.C, a.m, a.n, a.k, t)
          [] L.kernel = "bias_add_kernel" ->
               bias_add_kernel(M, a.x, a.bias, a.batch_size, a.size, t)
          [] L.kernel = "gelu_kernel" ->
               gelu_kernel(M, a.x, a.size, t)
          [] L.kernel = "softmax_kernel" ->
               softmax_kernel(M, a.x, a.batch_size, a.size, t)
          [] L.kernel = "WMMAF16TensorCore" ->
               WMMAF16TensorCore(M, a.A, a.B, a.C, a.D, t)

\* The units the device schedules: the threads of a launch, or for the wmma
\* kernel its groups of WARP_SIZE consecutive threads.
Workers(L) ==
    IF L.kernel = "WMMAF16TensorCore"
    THEN 0..((NThreads(L) \div WARP_SIZE) - 1)
    ELSE Threads(L)

FirstThread(L, id) ==
    IF L.kernel = "WMMAF16TensorCore" THEN id * WARP_SIZE ELSE id

\* The hardware warp of thread number id: HW_WARP_SIZE consecutive threads
\* of a block.
HwWarpOf(L, id) ==
    LET perBlock == L.block.x * L.block.y
    IN  <<id \div perBlock, (id % perBlock) \div HW_WARP_SIZE>>

\* The threads that run a wmma operation with worker id are exactly one
\* full hardware warp.
WarpConverged(L, id) ==
    LET mine == {FirstThread(L, id) + l : l \in 0..(WARP_SIZE - 1)}
    IN  /\ Cardinality(mine) = HW_WARP_SIZE
        /\ \A t1 \in mine :
             {t2 \in Threads(L) : HwWarpOf(L, t2) = HwWarpOf(L, t1)} = mine

\* A value no input holds, standing for an unspecified result.
Unspecified == 0 - ONE

\* What worker id of launch L may do on memory M.  A wmma operation whose
\* threads are not one converged hardware warp is undefined: the tile may
\* come out as coded, not be written, or hold unspecified values.
Outcomes(L, M, id) ==
    LET acc == Thread(L, M, ThreadOf(L, FirstThread(L, id)))
    IN  IF L.kernel = "WMMAF16TensorCore" /\ ~WarpConverged(L, id) /\ DOMAIN acc.wr # {}
        THEN {acc, NoAccess, [acc EXCEPT !.wr = [x \in DOMAIN acc.wr |-> Unspecified]]}
        ELSE {acc}

\* Launch i may start: it is queued and every earlier launch of its stream
\* has completed.
CanStart(i) ==
    /\ kq[i].state = "queued"
    /\ \A j \in 1..(i - 1) : kq[j].stream = kq[i].stream => kq[j].state = "done"

StartKernel(i) ==
    /\ CanStart(i)
    /\ kq' = [kq EXCEPT ![i].state = "running"]
    /\ kstart' = [kstart EXCEPT ![i] = mem]
    /\ devlog' = Append(devlog, <<"start", i>>)
    /\ UNCHANGED <<mem, done, wlog, rlog>>

RunThread(i, id) ==
    /\ kq[i].state = "running"
    /\ id \in Workers(kq[i]) \ done[i]
    /\ \E acc \in Outcomes(kq[i], mem, id) :
           /\ mem' = Apply(mem, acc)
           /\ wlog' = [wlog EXCEPT ![i] = @ \cup {<<id, acc.wbuf, j>> : j \in DOMAIN acc.wr}]
           /\ rlog' = [rlog EXCEPT ![i] = @ \cup {<<id, r[1], r[2]>> : r \in acc.rd}]
    /\ done' = [done EXCEPT ![i] = @ \cup {id}]
    /\ UNCHANGED <<kq, kstart, devlog>>

FinishKernel(i) ==
    /\ kq[i].state = "running"
    /\ done[i] = Workers(kq[i])
    /\ kq' = [kq EXCEPT ![i].state = "done"]
    /\ devlog' = Append(devlog, <<"end", i>>)
    /\ UNCHANGED <<mem, done, wlog, rlog, kstart>>

Device ==
    /\ status = "running"
    /\ \E i \in 1..Len(kq) :
         \/ StartKernel(i)
         \/ \E id \in Workers(kq[i]) : RunThread(i, id)
         \/ FinishKernel(i)

\* The device state after the host has issued launch L.
Enqueue(L) ==
    /\ kq' = Append(kq, L)
    /\ done' = Append(done, {})
    /\ wlog' = Append(wlog, {})
    /\ rlog' = Append(rlog, {})
    /\ kstart' = Append(kstart, <<>>)
    /\ UNCHANGED <<mem, devlog>>

\* The threads of L run one after the other in increasing thread number.
RECURSIVE SeqRun(_, _, _)
SeqRun(L, M, id) ==
    IF id >= NThreads(L) THEN M
    ELSE LET M1 == Apply(M, Thread(L, M, ThreadOf(L, id)))
         IN  IF M1 = M1 THEN SeqRun(L, M1, id + 1) ELSE M1

-----------------------------------------------------------------------------
(* Single launches: one kernel launched on inputs drawn from a bounded     *)
(* family, with the grid computed as forward() computes it.                *)

MaxDim == 2
MaxSeed == 1
BLOCK_DIM == 2
THREADS_1D == 3

Dims == 1..MaxDim
Seeds == 0..MaxSeed

\* A buffer of len whole numbers between -1 and 2.
Pattern(len, seed) ==
    [i \in 0..(len - 1) |-> (((seed + 2 * i + (i \div 2)) % 4) - 1) * ONE]

Fill(len, v) == [i \in 0..(len - 1) |-> v]

\* dim3 block_size(32, 32); grid_size((cols + bs.x - 1) / bs.x, (rows + bs.y - 1) / bs.y)
Grid2D(rows, cols) == Dim(CeilDiv(cols, BLOCK_DIM), CeilDiv(rows, BLOCK_DIM))
Block2D == Dim(BLOCK_DIM, BLOCK_DIM)
\* <<<(n + 255) / 256, 256>>>
Grid1D(n) == Dim(CeilDiv(n, THREADS_1D), 1)
Block1D == Dim(THREADS_1D, 1)

MatmulArgs(m, n, k) == [A |-> "A", B |-> "B", C |-> "C", m |-> m, n |-> n, k |-> k]

MatmulCases ==
    { [L |-> Launch(kern, Grid2D(IF kern = "matmul_at_b_kernel" THEN n ELSE m, k),
                    Block2D, 0, MatmulArgs(m, n, k)),
       M |-> [A |-> Pattern(m * n, sa),
              B |-> Pattern((IF kern = "matmul_at_b_kernel" THEN m ELSE n) * k, sa + sb + 1),
              C |-> Pattern((IF kern = "matmul_at_b_kernel" THEN n ELSE m) * k, sb)]] :
        kern \in {"matmul_a_b_kernel", "matmul_a_bt_kernel", "matmul_at_b_kernel"},
        m \in Dims, n \in Dims, k \in Dims, sa \in Seeds, sb \in Seeds }

BiasCases ==
    { [L |-> Launch("bias_add_kernel", Grid1D(bs * size), Block1D, 0,
                    [x |-> "x", bias |-> "bias", batch_size |-> bs, size |-> size]),
       M |-> [x    |-> IF sx = 0 THEN Fill(bs * size, 0) ELSE Pattern(bs * size, sx),
              bias |-> [i \in 0..(size - 1) |-> (i + 1 + sb) * ONE]]] :
        bs \in Dims, size \in Dims, sx \in Seeds, sb \in Seeds }

GeluCases ==
    { [L |-> Launch("gelu_kernel", Grid1D(size), Block1D, 0, [x |-> "x", size |-> size]),
       M |-> [x |-> Pattern(size, sx)]] :
        size \in Dims, sx \in Seeds }

\* Rows for softmax.  Short rows hold patterns of whole numbers; a row of the
\* hi/lo family holds nHi entries equal to 0 followed by entries equal to
\* -gap.  Long rows keep gap >= 6 so that the sum of the exponentials stays
\* in the range of the fixed-point division.
MaxRow == 3
MaxHi == 2
MaxGap == 6
SizeLimit == 500
FloorBreak == 1002

\* The gaps 21, 18, 15, ... counted down from 21 (exp(-21) rounds to 0).
Gap(g) == (21 - 3 * (MaxGap - g)) * ONE
LongGaps == {g \in 1..MaxGap : Gap(g) >= 6 * ONE}

HiLoRows(bs, size, h, g) ==
    [j \in 0..(bs * size - 1) |->
        IF (j % size) < (((h + (j \div size)) % MaxHi) + 1) THEN 0 ELSE 0 - Gap(g)]

SoftmaxLaunch(bs, size) ==
    Launch("softmax_kernel", Dim(bs, 1), Dim(1, 1), 0,
           [x |-> "x", batch_size |-> bs, size |-> size])

SoftmaxCases ==
    { [L |-> SoftmaxLaunch(bs, size), M |-> [x |-> Pattern(bs * size, sx)]] :
        bs \in Dims, size \in 1..MaxRow, sx \in Seeds }
    \cup
    { [L |-> SoftmaxLaunch(bs, size), M |-> [x |-> HiLoRows(bs, size, h, g)]] :
        bs \in 1..2, size \in 1..MaxRow, h \in 0..(MaxHi - 1), g \in 1..MaxGap }
    \cup
    { [L |-> SoftmaxLaunch(bs, size), M |-> [x |-> HiLoRows(bs, size, h, g)]] :
        bs \in 1..2, size \in {SizeLimit, FloorBreak}, h \in 0..(MaxHi - 1),
        g \in LongGaps }

KernelCases == MatmulCases \cup BiasCases \cup GeluCases \cup SoftmaxCases

InitKernel ==
    \E c \in KernelCases :
        /\ mem = c.M
        /\ mem0 = c.M
        /\ kq = <<c.L>>
        /\ done = <<{}>>
        /\ wlog = <<{}>>
        /\ rlog = <<{}>>
        /\ kstart = <<<<>>>>
        /\ devlog = <<>>
        /\ pc = "launched"
        /\ hv = [prog |-> "kernel"]
        /\ calls = <<>>
        /\ out = <<>>
        /\ status = "running"

NextKernel == Device /\ UNCHANGED <<mem0, pc, hv, calls, out, status>>

SpecKernel == InitKernel /\ [][NextKernel]_vars

-----------------------------------------------------------------------------
(* forward(): six launches on the default stream, each followed by         *)
(* CUDA_CHECK(cudaGetLastError()), then CUDA_CHECK(cudaDeviceSynchronize()).*)
(* A launch and the check that follows it are one host step.               *)

INPUT_SIZE == 2
HIDDEN_SIZE == 2
OUTPUT_SIZE == 2
BATCH_SIZE == 2

\* Buffers of 0/1 inputs and of weights in -1..1.
Pattern01(len, seed) == [i \in 0..(len - 1) |-> ((seed + i + (i \div 2)) % 2) * ONE]
PatternW(len, seed) == [i \in 0..(len - 1) |-> (((seed + 2 * i + (i \div 2)) % 3) - 1) * ONE]

ParamBuffers == {"weights1", "weights2", "bias1", "bias2"}
GradBuffers == {"grad_weights1", "grad_weights2", "grad_bias1", "grad_bias2"}

\* The NeuralNetwork struct, the batch input and the two activation buffers.
FwdMemory(seed) ==
    [d_input       |-> Pattern01(BATCH_SIZE * INPUT_SIZE, seed),
     d_hidden      |-> Pattern(BATCH_SIZE * HIDDEN_SIZE, seed),
     d_output      |-> Pattern(BATCH_SIZE * OUTPUT_SIZE, seed + 1),
     weights1      |-> PatternW(INPUT_SIZE * HIDDEN_SIZE, seed),
     weights2      |-> PatternW(HIDDEN_SIZE * OUTPUT_SIZE, seed + 1),
     bias1         |-> Pattern01(HIDDEN_SIZE, seed + 1),
     bias2         |-> Pattern01(OUTPUT_SIZE, seed),
     grad_weights1 |-> Pattern(INPUT_SIZE * HIDDEN_SIZE, seed),
     grad_weights2 |-> Pattern(HIDDEN_SIZE * OUTPUT_SIZE, seed),
     grad_bias1    |-> Pattern(HIDDEN_SIZE, seed),
     grad_bias2    |-> Pattern(OUTPUT_SIZE, seed)]

\* Mutant: softmax launched with two threads per block.
SoftmaxBlock_wide == Dim(2, 1)

\* softmax_kernel<<<batch_size, 1>>>
SoftmaxBlock == Dim(1, 1)

\* kernel<<<grid, block>>>: no stream argument, the default stream.
DefaultStream == 0

\* The launch forward() makes at its step s = 1..6 for a batch of bs rows.
FwdLaunch(s, bs) ==
    CASE s = 1 -> Launch("matmul_a_b_kernel", Grid2D(bs, HIDDEN_SIZE), Block2D, DefaultStream,
                         [A |-> "d_input", B |-> "weights1", C |-> "d_hidden",
                          m |-> bs, n |-> INPUT_SIZE, k |-> HIDDEN_SIZE])
      [] s = 2 -> Launch("bias_add_kernel", Grid1D(bs * HIDDEN_SIZE), Block1D, DefaultStream,
                         [x |-> "d_hidden", bias |-> "bias1",
                          batch_size |-> bs, size |-> HIDDEN_SIZE])
      [] s = 3 -> Launch("gelu_kernel", Grid1D(bs * HIDDEN_SIZE), Block1D, DefaultStream,
                         [x |-> "d_hidden", size |-> bs * HIDDEN_SIZE])
      [] s = 4 -> Launch("matmul_a_b_kernel", Grid2D(bs, OUTPUT_SIZE), Block2D, DefaultStream,
                         [A |-> "d_hidden", B |-> "weights2", C |-> "d_output",
                          m |-> bs, n |-> HIDDEN_SIZE, k |-> OUTPUT_SIZE])
      [] s = 5 -> Launch("bias_add_kernel", Grid1D(bs * OUTPUT_SIZE), Block1D, DefaultStream,
                         [x |-> "d_output", bias |-> "bias2",
                          batch_size |-> bs, size |-> OUTPUT_SIZE])
      [] s = 6 -> Launch("softmax_kernel", Dim(bs, 1), SoftmaxBlock, DefaultStream,
                         [x |-> "d_output", batch_size |-> bs, size |-> OUTPUT_SIZE])

FwdPc == <<"fwd_matmul1", "fwd_bias1", "fwd_gelu", "fwd_matmul2", "fwd_bias2",
           "fwd_softmax", "fwd_sync">>

DeviceIdle == \A i \in 1..Len(kq) : kq[i].state = "done"

\* CUDA_CHECK with error != cudaSuccess: fprintf(stderr, ...), cudaDeviceReset(),
\* exit(EXIT_FAILURE).  `made` are the calls of the checked expression.
CUDA_CHECK_Failed(made) ==
    /\ out' = Append(out, <<"stderr", "CUDA error">>)
    /\ calls' = calls \o made \o <<<<"cudaDeviceReset", 0>>>>
    /\ status' = "EXIT_FAILURE"
    /\ pc' = "exited"
    /\ hv' = hv

FwdLaunchOk(s) ==
    /\ status = "running"
    /\ pc = FwdPc[s]
    /\ Enqueue(FwdLaunch(s, hv.batch_size))
    /\ calls' = calls \o <<<<"launch", s>>, <<"cudaGetLastError", 0>>>>
    /\ pc' = FwdPc[s + 1]
    /\ UNCHANGED <<mem0, hv, out, status>>

FwdLaunchFail(s) ==
    /\ status = "running"
    /\ pc = FwdPc[s]
    /\ CUDA_CHECK_Failed(<<<<"launch", s>>, <<"cudaGetLastError", 0>>>>)
    /\ UNCHANGED <<mem0, devvars>>

\* Mutant: the synchronization returns without waiting for the device.
FwdSyncOk_nowait ==
    /\ status = "running"
    /\ pc = "fwd_sync"
    /\ calls' = Append(calls, <<"cudaDeviceSynchronize", 0>>)
    /\ pc' = "fwd_ret"
    /\ UNCHANGED <<mem0, devvars, hv, out, status>>

\* cudaDeviceSynchronize() returns once the device has no work left.
FwdSyncOk ==
    /\ status = "running"
    /\ pc = "fwd_sync"
    /\ DeviceIdle
    /\ calls' = Append(calls, <<"cudaDeviceSynchronize", 0>>)
    /\ pc' = "fwd_ret"
    /\ UNCHANGED <<mem0, devvars, hv, out, status>>

FwdSyncFail ==
    /\ status = "running"
    /\ pc = "fwd_sync"
    /\ DeviceIdle
    /\ CUDA_CHECK_Failed(<<<<"cudaDeviceSynchronize", 0>>>>)
    /\ UNCHANGED <<mem0, devvars>>

forward ==
    \/ \E s \in 1..6 : FwdLaunchOk(s)
    \/ \E s \in 1..6 : FwdLaunchFail(s)
    \/ FwdSyncOk
    \/ FwdSyncFail

InitFwd ==
    \E bs \in 1..BATCH_SIZE, seed \in Seeds :
        /\ mem = FwdMemory(seed)
        /\ mem0 = FwdMemory(seed)
        /\ kq = <<>>
        /\ done = <<>>
        /\ wlog = <<>>
        /\ rlog = <<>>
        /\ kstart = <<>>
        /\ devlog = <<>>
        /\ pc = "fwd_matmul1"
        /\ hv = [prog |-> "forward", batch_size |-> bs]
        /\ calls = <<>>
        /\ out = <<>>
        /\ status = "running"

NextFwd ==
    \/ forward
    \/ Device /\ UNCHANGED <<mem0, pc, hv, calls, out, status>>

SpecFwd == InitFwd /\ [][NextFwd]_vars

-----------------------------------------------------------------------------
(* The benchmark: main() and CalcWMMA().  Every device API call returns    *)
(* success or an error; the host does with the result what the source      *)
(* does.                                                                   *)

BLOCK_WARPS == 2
BLOCK_DIM_Y == 2

\* rand() % 1000 for the i-th call of rand(); the sequence is the C
\* library's, drawn here from a family indexed by seed.
rand1000(seed, i) == ((seed + 1) * 389 + i * 617 + i * i * 53) % 1000

\* rand() % 1000 / 1000.0f
RandFloat(seed, i) == MulDivRound(rand1000(seed, i), SCALE, 1000)

\* The buffers after InitMatrix(A, B, C) has filled those in `valid`.
InitMatrix(M, seed, valid) ==
    [b \in DOMAIN M |->
        IF b \notin valid THEN M[b]
        ELSE IF b = "A"
        THEN [i \in 0..(M_TOTAL * K_TOTAL - 1) |-> Float2Half(RandFloat(seed, i))]
        ELSE IF b = "B"
        THEN [i \in 0..(K_TOTAL * N_TOTAL - 1) |->
                Float2Half(RandFloat(seed, M_TOTAL * K_TOTAL + i))]
        ELSE IF b = "C"
        THEN [i \in 0..(M_TOTAL * N_TOTAL - 1) |->
                RandFloat(seed, M_TOTAL * K_TOTAL + K_TOTAL * N_TOTAL + i)]
        ELSE M[b]]

\* Managed memory before anything is stored in it.
BenchMemory(seed) ==
    [b \in {"A", "B", "C", "D"} |->
        IF b = "A" THEN Fill(M_TOTAL * K_TOTAL, 0)
        ELSE IF b = "B" THEN Fill(K_TOTAL * N_TOTAL, 0)
        ELSE IF b = "C" THEN Fill(M_TOTAL * N_TOTAL, 0)
        ELSE Pattern(M_TOTAL * N_TOTAL, seed)]

BenchPtrs == <<"A", "B", "C", "D">>

\* gridDim and blockDim as CalcWMMA computes them.
WMMALaunch ==
    LET blockDim == Dim(BLOCK_WARPS * WARP_SIZE, BLOCK_DIM_Y)
        gridDim  == Dim((M_TOTAL + (((WMMA_M * blockDim.x) \div WARP_SIZE) - 1))
                          \div ((WMMA_M * blockDim.x) \div WARP_SIZE),
                        (N_TOTAL + WMMA_N * blockDim.y - 1) \div (WMMA_N * blockDim.y))
    IN  Launch("WMMAF16TensorCore", gridDim, blockDim, DefaultStream,
               [A |-> "A", B |-> "B", C |-> "C", D |-> "D"])

\* The first failed device call (selection, allocation, launch,
\* synchronization) is call number Len(calls) + n; history only.
NoteFailure(n) ==
    IF hv.failedAt = 0
    THEN [hv EXCEPT !.failedAt = Len(calls) + n, !.outAt = Len(out)]
    ELSE hv

cudaSetDeviceOk ==
    /\ status = "running"
    /\ pc = "main_setdevice"
    /\ calls' = Append(calls, <<"cudaSetDevice", 0>>)
    /\ pc' = "main_malloc"
    /\ UNCHANGED <<mem0, devvars, hv, out, status>>

\* printf("cudaSetDevice failed! "); return 1;
cudaSetDeviceFail ==
    /\ status = "running"
    /\ pc = "main_setdevice"
    /\ calls' = Append(calls, <<"cudaSetDevice", 0>>)
    /\ hv' = NoteFailure(1)
    /\ out' = Append(out, <<"stdout", "cudaSetDevice failed! ">>)
    /\ status' = "EXIT_FAILURE"
    /\ pc' = "exited"
    /\ UNCHANGED <<mem0, devvars>>

\* The four cudaMallocManaged calls; the result is not looked at.
cudaMallocManagedOk ==
    /\ status = "running"
    /\ pc = "main_malloc"
    /\ LET i == hv.nalloc + 1
       IN  /\ calls' = Append(calls, <<"cudaMallocManaged", i>>)
           /\ hv' = [hv EXCEPT !.nalloc = i, !.ptr[BenchPtrs[i]] = "valid"]
           /\ pc' = IF i = Len(BenchPtrs) THEN "main_init" ELSE "main_malloc"
    /\ UNCHANGED <<mem0, devvars, out, status>>

cudaMallocManagedFail ==
    /\ status = "running"
    /\ pc = "main_malloc"
    /\ LET i == hv.nalloc + 1
       IN  /\ calls' = Append(calls, <<"cudaMallocManaged", i>>)
           /\ hv' = [NoteFailure(1) EXCEPT !.nalloc = i]
           /\ pc' = IF i = Len(BenchPtrs) THEN "main_init" ELSE "main_malloc"
    /\ UNCHANGED <<mem0, devvars, out, status>>

ValidPtrs == {b \in DOMAIN hv.ptr : hv.ptr[b] = "valid"}

InitPrints ==
    <<<<"stdout", "[+]   A">>, <<"stdout", "[+]   B">>, <<"stdout", "[+]   C">>,
      <<"stdout", "[*] Computing D = A * B + C with Tensor Cores...">>>>

\* printf, InitMatrix(A, B, C), four printf; all three pointers allocated.
InitMatrixOk ==
    /\ status = "running"
    /\ pc = "main_init"
    /\ {"A", "B", "C"} \subseteq ValidPtrs
    /\ mem' = InitMatrix(mem, hv.seed, {"A", "B", "C"})
    /\ out' = out \o <<<<"stdout", "[*] Initializing Matrix...">>>> \o InitPrints
    /\ pc' = "calc_launch"
    /\ UNCHANGED <<mem0, kq, done, wlog, rlog, kstart, devlog, hv, calls, status>>

\* InitMatrix stores through a pointer that was never set: the process is
\* killed, or it goes on with the other buffers filled.
InitMatrixWild ==
    /\ status = "running"
    /\ pc = "main_init"
    /\ ~({"A", "B", "C"} \subseteq ValidPtrs)
    /\ \/ /\ out' = Append(out, <<"stdout", "[*] Initializing Matrix...">>)
          /\ status' = "SIGSEGV"
          /\ pc' = "exited"
          /\ mem' = mem
       \/ /\ mem' = InitMatrix(mem, hv.seed, {"A", "B", "C"} \cap ValidPtrs)
          /\ out' = out \o <<<<"stdout", "[*] Initializing Matrix...">>>> \o InitPrints
          /\ pc' = "calc_launch"
          /\ status' = status
    /\ UNCHANGED <<mem0, kq, done, wlog, rlog, kstart, devlog, hv, calls>>

LaunchCalls ==
    <<<<"cudaEventCreate", 0>>, <<"cudaEventCreate", 1>>, <<"cudaEventRecord", 0>>,
      <<"launch", 1>>>>

\* CalcWMMA up to and including the launch.
CalcWMMA_Launch ==
    /\ status = "running"
    /\ pc = "calc_launch"
    /\ Enqueue(WMMALaunch)
    /\ calls' = calls \o LaunchCalls
    /\ pc' = "calc_sync"
    /\ UNCHANGED <<mem0, hv, out, status>>

\* The launch fails; nothing asks for the launch's error.
CalcWMMA_LaunchFail ==
    /\ status = "running"
    /\ pc = "calc_launch"
    /\ calls' = calls \o LaunchCalls
    /\ hv' = NoteFailure(Len(LaunchCalls))
    /\ pc' = "calc_sync"
    /\ UNCHANGED <<mem0, devvars, out, status>>

\* cuda_status = cudaDeviceSynchronize();
CalcWMMA_SyncOk ==
    /\ status = "running"
    /\ pc = "calc_sync"
    /\ DeviceIdle
    /\ calls' = Append(calls, <<"cudaDeviceSynchronize", 0>>)
    /\ hv' = [hv EXCEPT !.cuda_status = "cudaSuccess"]
    /\ pc' = "calc_report"
    /\ UNCHANGED <<mem0, devvars, out, status>>

CalcWMMA_SyncFail ==
    /\ status = "running"
    /\ pc = "calc_sync"
    /\ DeviceIdle
    /\ calls' = Append(calls, <<"cudaDeviceSynchronize", 0>>)
    /\ hv' = [NoteFailure(1) EXCEPT !.cuda_status = "cudaError"]
    /\ pc' = "calc_report"
    /\ UNCHANGED <<mem0, devvars, out, status>>

\* The rest of CalcWMMA: stop event, elapsed time, the two report lines.
CalcWMMA_Report ==
    /\ status = "running"
    /\ pc = "calc_report"
    /\ calls' = calls \o <<<<"cudaEventRecord", 1>>, <<"cudaEventSynchronize", 1>>,
                           <<"cudaEventElapsedTime", 0>>, <<"cudaEventDestroy", 0>>,
                           <<"cudaEventDestroy", 1>>>>
    /\ out' = out \o <<<<"stdout", "[+] GPU (with Tensor Cores) Elapsed Time">>,
                       <<"stdout", "[+] TFLOPS">>>>
    /\ pc' = "main_check"
    /\ UNCHANGED <<mem0, devvars, hv, status>>

\* printf("Kernel execution failed! "); return 1;
main_KernelFailed ==
    /\ status = "running"
    /\ pc = "main_check"
    /\ hv.cuda_status # "cudaSuccess"
    /\ out' = Append(out, <<"stdout", "Kernel execution failed! ">>)
    /\ status' = "EXIT_FAILURE"
    /\ pc' = "exited"
    /\ UNCHANGED <<mem0, devvars, hv, calls>>

main_cudaFree ==
    /\ status = "running"
    /\ pc = "main_check"
    /\ hv.cuda_status = "cudaSuccess"
    /\ calls' = calls \o [i \in 1..Len(BenchPtrs) |-> <<"cudaFree", i>>]
    /\ pc' = "main_reset"
    /\ UNCHANGED <<mem0, devvars, hv, out, status>>

cudaDeviceResetOk ==
    /\ status = "running"
    /\ pc = "main_reset"
    /\ calls' = Append(calls, <<"cudaDeviceReset", 0>>)
    /\ status' = "EXIT_SUCCESS"
    /\ pc' = "exited"
    /\ UNCHANGED <<mem0, devvars, hv, out>>

\* printf("cudaDeviceReset failed! "); return 1;
cudaDeviceResetFail ==
    /\ status = "running"
    /\ pc = "main_reset"
    /\ calls' = Append(calls, <<"cudaDeviceReset", 0>>)
    /\ out' = Append(out, <<"stdout", "cudaDeviceReset failed! ">>)
    /\ status' = "EXIT_FAILURE"
    /\ pc' = "exited"
    /\ UNCHANGED <<mem0, devvars, hv>>

main ==
    \/ cudaSetDeviceOk
    \/ cudaSetDeviceFail
    \/ cudaMallocManagedOk
    \/ cudaMallocManagedFail
    \/ InitMatrixOk
    \/ InitMatrixWild
    \/ CalcWMMA_Launch
    \/ CalcWMMA_LaunchFail
    \/ CalcWMMA_SyncOk
    \/ CalcWMMA_SyncFail
    \/ CalcWMMA_Report
    \/ main_KernelFailed
    \/ main_cudaFree
    \/ cudaDeviceResetOk
    \/ cudaDeviceResetFail

InitBench ==
    \E seed \in Seeds :
        /\ mem = BenchMemory(seed)
        /\ mem0 = BenchMemory(seed)
        /\ kq = <<>>
        /\ done = <<>>
        /\ wlog = <<>>
        /\ rlog = <<>>
        /\ kstart = <<>>
        /\ devlog = <<>>
        /\ pc = "main_setdevice"
        /\ hv = [prog |-> "bench", seed |-> seed, nalloc |-> 0,
                 ptr |-> [b \in {"A", "B", "C", "D"} |-> "unset"],
                 cuda_status |-> "cudaSuccess", failedAt |-> 0, outAt |-> 0]
        /\ calls = <<>>
        /\ out = <<>>
        /\ status = "running"

NextBench ==
    \/ main
    \/ Device /\ UNCHANGED <<mem0, pc, hv, calls, out, status>>

SpecBench == InitBench /\ [][NextBench]_vars

-----------------------------------------------------------------------------
(* Properties of single launches (SpecKernel).                             *)

Finished(i) == kq[i].state = "done"

\* f[lo] + ... + f[hi-1], from the top index down.
RECURSIVE Sigma(_, _, _)
Sigma(f, lo, hi) == IF lo >= hi THEN 0 ELSE f[hi - 1] + Sigma(f, lo, hi - 1)

\* The cols x rows transpose of the rows x cols row-major matrix X.
TransposeOf(X, rows, cols) ==
    [j \in 0..(rows * cols - 1) |-> X[(j % rows) * cols + (j \div rows)]]

InRange2D(L, id, rows, cols) ==
    ThreadRow(ThreadOf(L, id)) < rows /\ ThreadCol(ThreadOf(L, id)) < cols

\* C1: after a launch of matmul_a_b_kernel whose grid covers m rows and k
\* columns, C[r*k+c] is the sum over i of A[r*n+i]*B[i*k+c] for every r < m,
\* c < k, whatever C held before (the same result as from a zeroed C), and
\* threads with row >= m or col >= k neither read nor write.
C1_MatmulAB ==
    kq[1].kernel = "matmul_a_b_kernel" =>
        LET a == kq[1].args
        IN  /\ \A e \in wlog[1] \cup rlog[1] : InRange2D(kq[1], e[1], a.m, a.k)
            /\ \A e \in wlog[1] : e[2] = "C"
            /\ mem.A = mem0.A /\ mem.B = mem0.B
            /\ Finished(1) =>
                 /\ \A r \in 0..(a.m - 1), c \in 0..(a.k - 1) :
                      mem.C[r * a.k + c] =
                        Sigma([i \in 0..(a.n - 1) |->
                                 fmul(mem0.A[r * a.n + i], mem0.B[i * a.k + c])],
                              0, a.n)
                 /\ mem.C = SeqRun(kq[1], [mem0 EXCEPT !.C = Fill(a.m * a.k, 0)], 0).C

C1_Witness ==
    /\ kq[1].kernel = "matmul_a_b_kernel"
    /\ Finished(1)
    /\ kq[1].args.m = 1 /\ kq[1].args.n = MaxDim /\ kq[1].args.k = MaxDim
    /\ NThreads(kq[1]) > kq[1].args.m * kq[1].args.k
    /\ mem.C # mem0.C
    /\ \E i \in DOMAIN mem0.C : mem0.C[i] # 0

\* C2: the output of matmul_a_bt_kernel(A, B, C, m, n, k) is the output of
\* matmul_a_b_kernel on A and the explicit n x k transpose of B, that is
\* C[r*k+c] is the sum over i of A[r*n+i]*B[c*n+i].
C2_MatmulABt ==
    (kq[1].kernel = "matmul_a_bt_kernel" /\ Finished(1)) =>
        LET a == kq[1].args
        IN  /\ \A r \in 0..(a.m - 1), c \in 0..(a.k - 1) :
                 mem.C[r * a.k + c] =
                   Sigma([i \in 0..(a.n - 1) |->
                            fmul(mem0.A[r * a.n + i], mem0.B[c * a.n + i])],
                         0, a.n)
            /\ mem.C = SeqRun([kq[1] EXCEPT !.kernel = "matmul_a_b_kernel"],
                              [mem0 EXCEPT !.B = TransposeOf(mem0.B, a.k, a.n)],
                              0).C

C2_Witness ==
    /\ kq[1].kernel = "matmul_a_bt_kernel"
    /\ Finished(1)
    /\ kq[1].args.m = MaxDim /\ kq[1].args.n = MaxDim /\ kq[1].args.k = MaxDim
    /\ TransposeOf(mem0.B, MaxDim, MaxDim) # mem0.B
    /\ mem.C # mem0.C

\* C3: matmul_at_b_kernel(A, B, C, m, n, k) writes the n x k result
\* C[r*k+c] = sum over i < m of A[i*n+r]*B[i*k+c], the output of
\* matmul_a_b_kernel on the explicit n x m transpose of A and B, and threads
\* with row >= n or col >= k neither read nor write.
C3_MatmulAtB ==
    kq[1].kernel = "matmul_at_b_kernel" =>
        LET a == kq[1].args
        IN  /\ \A e \in wlog[1] \cup rlog[1] : InRange2D(kq[1], e[1], a.n, a.k)
            /\ Finished(1) =>
                 /\ \A r \in 0..(a.n - 1), c \in 0..(a.k - 1) :
                      mem.C[r * a.k + c] =
                        Sigma([i \in 0..(a.m - 1) |->
                                 fmul(mem0.A[i * a.n + r], mem0.B[i * a.k + c])],
                              0, a.m)
                 /\ mem.C = SeqRun([kq[1] EXCEPT !.kernel = "matmul_a_b_kernel",
                                                 !.args.m = a.n, !.args.n = a.m],
                                   [mem0 EXCEPT !.A = TransposeOf(mem0.A, a.m, a.n)],
                                   0).C

C3_Witness ==
    /\ kq[1].kernel = "matmul_at_b_kernel"
    /\ Finished(1)
    /\ kq[1].args.m = MaxDim /\ kq[1].args.n = 1 /\ kq[1].args.k = MaxDim
    /\ NThreads(kq[1]) > kq[1].args.n * kq[1].args.k
    /\ mem.C # mem0.C

\* C9: after bias_add_kernel launched with at least batch_size*size threads,
\* x[b*size+i] is its prior value plus bias[i]; every element is written
\* exactly once, by the thread of its own flat index; bias is unchanged;
\* threads of flat index >= batch_size*size neither read nor write; and rows
\* of zeros become copies of the bias vector.
C9_BiasAdd ==
    kq[1].kernel = "bias_add_kernel" =>
        LET a == kq[1].args
            n == a.batch_size * a.size
        IN  /\ NThreads(kq[1]) >= n
            /\ \A e \in wlog[1] \cup rlog[1] :
                 ThreadIdx1D(ThreadOf(kq[1], e[1])) < n
            /\ \A e \in wlog[1] :
                 e[2] = "x" /\ e[3] = ThreadIdx1D(ThreadOf(kq[1], e[1]))
            /\ mem.bias = mem0.bias
            /\ \A idx \in 0..(n - 1) :
                 mem.x[idx] = mem0.x[idx]
                              + (IF \E e \in wlog[1] : e[3] = idx
                                 THEN mem0.bias[idx % a.size] ELSE 0)
            /\ Finished(1) =>
                 /\ \A b \in 0..(a.batch_size - 1), i \in 0..(a.size - 1) :
                      /\ mem.x[b * a.size + i] = mem0.x[b * a.size + i] + mem0.bias[i]
                      /\ Cardinality({e \in wlog[1] : e[3] = b * a.size + i}) = 1
                 /\ (\A j \in 0..(n - 1) : mem0.x[j] = 0) =>
                      \A b \in 0..(a.batch_size - 1), i \in 0..(a.size - 1) :
                          mem.x[b * a.size + i] = mem.bias[i]

C9_Witness ==
    /\ kq[1].kernel = "bias_add_kernel"
    /\ Finished(1)
    /\ kq[1].args.batch_size = MaxDim /\ kq[1].args.size = MaxDim
    /\ NThreads(kq[1]) > MaxDim * MaxDim
    /\ \A j \in DOMAIN mem0.x : mem0.x[j] = 0
    /\ mem.x # mem0.x

\* 1e-4, the tolerance on a row's sum
SUM_TOL == 10 ^ 4

\* X[lo] + ... + X[hi-1], by halves.
RECURSIVE RangeSum(_, _, _)
RangeSum(X, lo, hi) ==
    IF lo >= hi THEN 0
    ELSE IF hi = lo + 1 THEN X[lo]
    ELSE RangeSum(X, lo, (lo + hi) \div 2) + RangeSum(X, (lo + hi) \div 2, hi)

RowSumsToOne(X, b, size) ==
    Abs(RangeSum(X, b * size, b * size + size) - ONE) <= SUM_TOL

RowFloored(X, b, size) ==
    \A i \in 0..(size - 1) : X[b * size + i] >= SOFTMAX_FLOOR

\* C8 as stated: after softmax_kernel, for every row length size >= 1, every
\* row sums to 1 within 1e-4 and every entry is >= 1e-7.
C8_AnySize ==
    (kq[1].kernel = "softmax_kernel" /\ Finished(1)) =>
        \A b \in 0..(kq[1].args.batch_size - 1) :
            /\ RowSumsToOne(mem.x, b, kq[1].args.size)
            /\ RowFloored(mem.x, b, kq[1].args.size)

\* C8 (amended): after softmax_kernel every entry of every row is >= 1e-7,
\* and every row of length size <= SizeLimit sums to 1 within 1e-4.
C8_SoftmaxBounded ==
    (kq[1].kernel = "softmax_kernel" /\ Finished(1)) =>
        \A b \in 0..(kq[1].args.batch_size - 1) :
            /\ RowFloored(mem.x, b, kq[1].args.size)
            /\ kq[1].args.size <= SizeLimit =>
                 RowSumsToOne(mem.x, b, kq[1].args.size)

C8_Witness ==
    /\ kq[1].kernel = "softmax_kernel"
    /\ Finished(1)
    /\ kq[1].args.size = SizeLimit
    /\ kq[1].args.batch_size = 2
    /\ \E j \in DOMAIN mem.x : mem.x[j] = SOFTMAX_FLOOR
    /\ \E j \in DOMAIN mem.x : mem.x[j] > HALF

-----------------------------------------------------------------------------
(* Properties of forward() (SpecFwd).                                      *)

FwdKernels == <<"matmul_a_b_kernel", "bias_add_kernel", "gelu_kernel",
                "matmul_a_b_kernel", "bias_add_kernel", "softmax_kernel">>

CallsNamed(name) == {j \in 1..Len(calls) : calls[j][1] = name}

\* C4: forward issues its six kernels on one stream in the fixed order
\* GEMM, bias_add, GELU, GEMM, bias_add, softmax; on the device kernel i+1
\* starts only after kernel i has ended; the only device synchronization is
\* the one after the softmax launch; and forward has returned only if all
\* six kernels have completed.
C4_ForwardOrder ==
    /\ Len(kq) <= 6
    /\ \A i \in 1..Len(kq) :
         /\ kq[i].kernel = FwdKernels[i]
         /\ kq[i].stream = kq[1].stream
         /\ kq[i].state # "queued" => \A j \in 1..(i - 1) : Finished(j)
    /\ LET n == Cardinality(CallsNamed("launch"))
       IN  /\ n \in {Len(kq), Len(kq) + 1}
           /\ n = Len(kq) + 1 => pc = "exited"
           /\ \A i \in 1..n : \E j \in CallsNamed("launch") :
                /\ calls[j] = <<"launch", i>>
                /\ Cardinality({h \in CallsNamed("launch") : h <= j}) = i
    /\ \A j \in 1..Len(devlog) :
         devlog[j] = <<IF j % 2 = 1 THEN "start" ELSE "end", (j + 1) \div 2>>
    /\ Cardinality(CallsNamed("cudaDeviceSynchronize")) <= 1
    /\ \A j \in CallsNamed("cudaDeviceSynchronize") :
         /\ {h \in 1..Len(calls) : calls[h][1] = "launch"} \subseteq 1..(j - 1)
         /\ \E h \in 1..(j - 1) : calls[h] = <<"launch", 6>>
    /\ pc = "fwd_ret" =>
         /\ Len(kq) = 6
         /\ \A i \in 1..6 : Finished(i)
         /\ Len(devlog) = 12
         /\ Cardinality(CallsNamed("cudaDeviceSynchronize")) = 1
         /\ calls[Len(calls)] = <<"cudaDeviceSynchronize", 0>>

C4_Witness ==
    /\ pc = "fwd_ret"
    /\ hv.batch_size = BATCH_SIZE
    /\ Len(devlog) = 12
    /\ mem.d_output # mem0.d_output

\* C7: within each launch issued by forward no buffer element is written by
\* two threads, no thread reads an element another thread of the launch
\* writes, and when the launch has ended the memory is what the threads
\* produce when run one after the other.
C7_WriteDisjoint ==
    \A i \in 1..Len(kq) :
        /\ kq[i] = [FwdLaunch(i, hv.batch_size) EXCEPT !.state = kq[i].state]
        /\ \A e1 \in wlog[i], e2 \in wlog[i] :
             (e1[2] = e2[2] /\ e1[3] = e2[3]) => e1[1] = e2[1]
        /\ \A w \in wlog[i], r \in rlog[i] :
             (w[2] = r[2] /\ w[3] = r[3]) => w[1] = r[1]
        /\ (Finished(i) /\ (i = Len(kq) \/ kq[i + 1].state = "queued")) =>
             mem = SeqRun(kq[i], kstart[i], 0)

\* Some launch is running with a thread of higher number done before one of
\* lower number that also writes, and all six launches are issued.
C7_Witness ==
    /\ Len(kq) = 6
    /\ hv.batch_size = BATCH_SIZE
    /\ \E i \in 1..6 :
         /\ kq[i].state = "running"
         /\ \E e \in wlog[i] : \E id \in Threads(kq[i]) \ done[i] :
              /\ id < e[1]
              /\ DOMAIN Thread(kq[i], mem, ThreadOf(kq[i], id)).wr # {}

\* C10: forward leaves d_input, the four parameter tensors and the four
\* gradient tensors unchanged, writes only d_hidden and d_output, and writes
\* no element outside their first batch_size rows.
C10_Frame ==
    LET bs == hv.batch_size
    IN  /\ DOMAIN mem = DOMAIN mem0
        /\ \A b \in {"d_input"} \cup ParamBuffers \cup GradBuffers : mem[b] = mem0[b]
        /\ \A i \in 1..Len(wlog) : \A e \in wlog[i] :
             \/ e[2] = "d_hidden" /\ e[3] < bs * HIDDEN_SIZE
             \/ e[2] = "d_output" /\ e[3] < bs * OUTPUT_SIZE
        /\ \A j \in DOMAIN mem.d_hidden :
             j >= bs * HIDDEN_SIZE => mem.d_hidden[j] = mem0.d_hidden[j]
        /\ \A j \in DOMAIN mem.d_output :
             j >= bs * OUTPUT_SIZE => mem.d_output[j] = mem0.d_output[j]

C10_Witness ==
    /\ pc = "fwd_ret"
    /\ hv.batch_size < BATCH_SIZE
    /\ \A j \in 0..(hv.batch_size * HIDDEN_SIZE - 1) : \E e \in wlog[3] : e[3] = j
    /\ \A j \in 0..(hv.batch_size * OUTPUT_SIZE - 1) : \E e \in wlog[6] : e[3] = j
    /\ mem.d_hidden # mem0.d_hidden
    /\ mem.d_output # mem0.d_output

-----------------------------------------------------------------------------
(* Properties of the benchmark (SpecBench).                                *)

\* Element (r, c) of A x B + C with A, B and C read row-major from memory M.
GemmRowMajor(M, r, c) ==
    Sigma([i \in 0..(K_TOTAL - 1) |->
             fmul(M.A[r * K_TOTAL + i], M.B[i * N_TOTAL + c])], 0, K_TOTAL)
      + M.C[r * N_TOTAL + c]

\* C5: with A, B, C and D row-major, once the launch made by CalcWMMA on
\* allocated and initialized matrices has ended, every element of every
\* output tile of D has been written exactly once and D = A x B + C.
C5_GemmAllRowMajor ==
    (Len(kq) = 1 /\ Finished(1) /\ ValidPtrs = {"A", "B", "C", "D"}) =>
        \A r \in 0..(M_TOTAL - 1), c \in 0..(N_TOTAL - 1) :
            /\ Cardinality({e \in wlog[1] : e[2] = "D" /\ e[3] = r * N_TOTAL + c}) = 1
            /\ mem.D[r * N_TOTAL + c] = GemmRowMajor(kstart[1], r, c)

ReportLines == {"[+] GPU (with Tensor Cores) Elapsed Time", "[+] TFLOPS"}

Diagnostics == {"CUDA error", "cudaSetDevice failed! ", "Kernel execution failed! "}

\* C6: once a device call (selection, allocation, launch, synchronization)
\* has failed, the only later device call is the device reset, no result
\* report is printed, the process does not exit with success, and when it
\* has exited it has printed a diagnostic, reset the device and exited with
\* a failure status.
C6_DeviceFailureFatal ==
    hv.failedAt > 0 =>
        /\ \A j \in (hv.failedAt + 1)..Len(calls) : calls[j][1] = "cudaDeviceReset"
        /\ \A j \in (hv.outAt + 1)..Len(out) : out[j][2] \notin ReportLines
        /\ status # "EXIT_SUCCESS"
        /\ pc = "exited" =>
             /\ status = "EXIT_FAILURE"
             /\ \E j \in (hv.outAt + 1)..Len(out) : out[j][2] \in Diagnostics
             /\ \E j \in (hv.failedAt + 1)..Len(calls) : calls[j][1] = "cudaDeviceReset"

=============================================================================
